---- MODULE Spec2Model ----
(***************************************************************************)
(* A model of kakeguruitwin_mc.cpp: a Monte Carlo experiment on random     *)
(* U/D strings.  The dynamic initialisation of cbarray runs                *)
(* makecombination; main then calls montecarloTBB, which runs MCMAX trials *)
(* in parallel, each trial appending an expectation map and a win map to   *)
(* two concurrent vectors; aggregateWinningAvg reduces the win maps in     *)
(* parallel into a concurrent hash map of counters; sumMontecarloAvg adds  *)
(* up the expectation maps; main prints both and returns.                  *)
(*                                                                         *)
(* A std::string is a sequence of the one-character strings "U" and "D".   *)
(* A boost flat_map is its sorted vector of [first, second] entries.       *)
(* TLC integers are 32 bits wide; every number of the model stays far      *)
(* below that, so std::uint32_t arithmetic is written without a modulus.   *)
(*                                                                         *)
(* Spec is the whole program and SpecFair the same under fair scheduling;  *)
(* SpecEval applies the trial evaluator to every string, SpecTrial runs    *)
(* the trial bodies and the generator from every state of a random source, *)
(* SpecConfig runs main's start under other values of the constants, and   *)
(* SpecAgg runs the serial and the parallel aggregator on the same trial   *)
(* win results.                                                            *)
(***************************************************************************)
EXTENDS Integers, Sequences, FiniteSets, TLC

\* ------------------------------------------------------------------ bounds
\* The number of trials, the length of a random string and the largest seed
\* of a random source, scaled down from the program's values.
MaxTrials == 2
MaxLen == 5
MaxSeed == 1
\* The largest state of a random source the aggregators' own runs start a trial from.
MaxAggState == 3

\* ------------------------------------------------------- program constants
MCMAX == MaxTrials

RANDNUMTABLELEN == MaxLen

\* The values the program is built with.
ConfiguredMCMAX == 1000000

ConfiguredRANDNUMTABLELEN == 100

UInt16MaxOver(l) == 65535 \div l

\* std::uint32_t, the mapped type of mymap and of the two maps of counters:
\* the largest n for which n * l is a value of the type, (2^32 - 1) \div l,
\* for l >= 2; written with 2^31 - 1, the largest integer TLC has
\* (2^32 - 1 = 2 * (2^31 - 1) + 1).
UInt32MaxOver(l) ==
    2 * (2147483647 \div l) + (2 * (2147483647 % l) + 1) \div l

udarray ==
    << <<"D","D","D">>, <<"D","D","U">>, <<"D","U","D">>, <<"D","U","U">>,
       <<"U","D","D">>, <<"U","D","U">>, <<"U","U","D">>, <<"U","U","U">> >>

\* std::string::npos, the value find returns when there is no match
\* (size_t(-1) in the code).
npos == -1

\* The offset myfind adds to the start index of a match.
PatternEnd == 3

\* --------------------------------------------------- strings and flat_maps
\* The character codes operator< of std::string compares.
CharCode(c) == IF c = "D" THEN 68 ELSE 85

RECURSIVE StringLess(_, _)
\* std::string operator<: lexicographic order.
StringLess(a, b) ==
    IF b = <<>> THEN FALSE
    ELSE IF a = <<>> THEN TRUE
    ELSE IF CharCode(Head(a)) < CharCode(Head(b)) THEN TRUE
    ELSE IF CharCode(Head(b)) < CharCode(Head(a)) THEN FALSE
    ELSE StringLess(Tail(a), Tail(b))

\* std::pair operator< on a strpair.
PairLess(p, q) ==
    \/ StringLess(p[1], q[1])
    \/ (~StringLess(q[1], p[1]) /\ StringLess(p[2], q[2]))

\* flat_map::find: the index of the entry with key k, 0 when there is none.
FlatFind(m, k) ==
    IF \E i \in 1..Len(m) : m[i].first = k
    THEN CHOOSE i \in 1..Len(m) : m[i].first = k
    ELSE 0

\* The sorted vector of a flat_map with a new entry put after its first n.
FlatPlace(m, n, k, v) ==
    SubSeq(m, 1, n) \o <<[first |-> k, second |-> v]>> \o SubSeq(m, n + 1, Len(m))

RECURSIVE MapLowerBound(_, _, _, _)
\* lower_bound on the sorted vector of a mymap: the number of entries, among
\* the first hi, whose key is less than k; the entries up to lo are known to be.
MapLowerBound(m, k, lo, hi) ==
    IF lo >= hi THEN lo
    ELSE LET mid == lo + ((hi - lo) \div 2)
         IN  IF StringLess(m[mid + 1].first, k)
             THEN MapLowerBound(m, k, mid + 1, hi)
             ELSE MapLowerBound(m, k, lo, mid)

RECURSIVE Map2LowerBound(_, _, _, _)
\* lower_bound on the sorted vector of a mymap2 or mymap3.
Map2LowerBound(m, k, lo, hi) ==
    IF lo >= hi THEN lo
    ELSE LET mid == lo + ((hi - lo) \div 2)
         IN  IF PairLess(m[mid + 1].first, k)
             THEN Map2LowerBound(m, k, mid + 1, hi)
             ELSE Map2LowerBound(m, k, lo, mid)

\* mymap::insert: the entry goes to its sorted place; a key that is already
\* present keeps its entry.
MapInsert(m, k, v) ==
    LET n == MapLowerBound(m, k, 0, Len(m))
    IN  IF n < Len(m) /\ m[n + 1].first = k THEN m ELSE FlatPlace(m, n, k, v)

\* mymap2::insert and mymap3::insert: the same, in the order of strpair.
Map2Insert(m, k, v) ==
    LET n == Map2LowerBound(m, k, 0, Len(m))
    IN  IF n < Len(m) /\ m[n + 1].first = k THEN m ELSE FlatPlace(m, n, k, v)

\* mymap3::operator[] followed by an assignment.
Map3Assign(m, k, v) ==
    LET n == Map2LowerBound(m, k, 0, Len(m))
    IN  IF n < Len(m) /\ m[n + 1].first = k
        THEN [m EXCEPT ![n + 1].second = v]
        ELSE FlatPlace(m, n, k, v)

\* The mapped value of a key that is present.
FlatAt(m, k) == m[FlatFind(m, k)].second

FlatKeys(m) == {m[i].first : i \in 1..Len(m)}

\* ---------------------------------------------------------- makecombination
RECURSIVE makecombinationLoop(_, _, _)
\* The two nested loops of makecombination; Append is cb[cnt++] = ...
makecombinationLoop(i, j, cb) ==
    IF i = Len(udarray) THEN cb
    ELSE IF j = Len(udarray) THEN makecombinationLoop(i + 1, 0, cb)
    ELSE IF i # j
         THEN makecombinationLoop(i, j + 1, Append(cb, <<udarray[i + 1], udarray[j + 1]>>))
         ELSE makecombinationLoop(i, j + 1, cb)

makecombination == makecombinationLoop(0, 0, <<>>)

cbarrayWithoutLast == SubSeq(makecombination, 1, Len(makecombination) - 1)

cbarray == makecombination

\* --------------------------------------------------------------- the locator
RECURSIVE StringFind(_, _, _)
\* std::string::find(str) from position pos: the lowest index at which str
\* occurs in udstr, npos when it occurs nowhere.
StringFind(udstr, str, pos) ==
    IF pos + Len(str) > Len(udstr) THEN npos
    ELSE IF SubSeq(udstr, pos + 1, pos + Len(str)) = str THEN pos
    ELSE StringFind(udstr, str, pos + 1)

myfindNoOffset(str, udstr) ==
    LET pos == StringFind(udstr, str, 0)
    IN  IF pos # npos THEN pos ELSE RANDNUMTABLELEN

myfindSentinelBeyond(str, udstr) ==
    LET pos == StringFind(udstr, str, 0)
    IN  IF pos # npos THEN pos + PatternEnd ELSE RANDNUMTABLELEN + 1

myfind(str, udstr) ==
    LET pos == StringFind(udstr, str, 0)
    IN  IF pos # npos THEN pos + PatternEnd ELSE RANDNUMTABLELEN

\* ------------------------------------------------------------- random source
\* myrandom::MyRand(1, 6): an engine state and a distribution over 1..6.
\* The engine is a full-period linear congruential generator.
MyRandModulus == 16

MyRandStep(s) == (5 * s + 3) % MyRandModulus

\* myrand(): the value drawn and the state the engine is left in.
myrand(s) == [value |-> 1 + (MyRandStep(s) % 6), mr |-> MyRandStep(s)]

UDSymbolFromThree(v) == IF v >= 3 THEN "U" ELSE "D"

\* mr.myrand() > 3 ? 'U' : 'D'
UDSymbol(v) == IF v > 3 THEN "U" ELSE "D"

RECURSIVE makerandomudstrLoop(_, _)
\* The range-for of makerandomudstr over the characters of udstring.
makerandomudstrLoop(udstring, s) ==
    IF Len(udstring) = RANDNUMTABLELEN THEN [udstring |-> udstring, mr |-> s]
    ELSE LET r == myrand(s)
         IN  makerandomudstrLoop(Append(udstring, UDSymbol(r.value)), r.mr)

makerandomudstr(s) == makerandomudstrLoop(<<>>, s)

\* ------------------------------------------------------- the trial evaluator
RECURSIVE AvgLoop(_, _, _)
\* The loop of montecarloImplAvg over udarray.
AvgLoop(udstr, i, result) ==
    IF i > Len(udarray) THEN result
    ELSE AvgLoop(udstr, i + 1,
                 MapInsert(result, udarray[i], myfind(udarray[i], udstr)))

WinOutcomeOrEqual(a, b) == a <= b

WinOutcomeReversed(a, b) == b < a

\* The comparison montecarloImplWinningAvg records for a pair.
WinOutcome(a, b) == a < b

RECURSIVE WinLoop(_, _, _)
\* The loop of montecarloImplWinningAvg over cbarray.
WinLoop(udstr, i, result) ==
    IF i > Len(cbarray) THEN result
    ELSE LET next == Map2Insert(result, cbarray[i],
                                WinOutcome(myfind(cbarray[i][1], udstr),
                                           myfind(cbarray[i][2], udstr)))
         IN  \* the test makes TLC evaluate the map before the next iteration
             IF Len(next) > 0 THEN WinLoop(udstr, i + 1, next) ELSE next

\* montecarloImplAvg(mr): the string it generates, the map it returns and the
\* state it leaves the random source in.
montecarloImplAvg(s) ==
    LET g == makerandomudstr(s)
    IN  [udstr |-> g.udstring, result |-> AvgLoop(g.udstring, 1, <<>>), mr |-> g.mr]

\* montecarloImplWinningAvg(mr), likewise.
montecarloImplWinningAvg(s) ==
    LET g == makerandomudstr(s)
    IN  [udstr |-> g.udstring, result |-> WinLoop(g.udstring, 1, <<>>), mr |-> g.mr]

RECURSIVE ImplAvgUpTo(_)
\* montecarloImplAvg on each of the first n states of the engine, in order.
ImplAvgUpTo(n) ==
    IF n = 0 THEN <<>> ELSE Append(ImplAvgUpTo(n - 1), montecarloImplAvg(n - 1))

RECURSIVE ImplWinningAvgUpTo(_)
\* montecarloImplWinningAvg, likewise.
ImplWinningAvgUpTo(n) ==
    IF n = 0 THEN <<>> ELSE Append(ImplWinningAvgUpTo(n - 1), montecarloImplWinningAvg(n - 1))

\* What the two functions do on a source in state s, for every s: entry s + 1.
ImplAvgOn == ImplAvgUpTo(MyRandModulus)

ImplWinningAvgOn == ImplWinningAvgUpTo(MyRandModulus)

\* ------------------------------------------------------------------ state
VARIABLES
    pc,                  \* where main is
    tpc,                 \* where each iteration of montecarloTBB's parallel_for is
    mr,                  \* the random sources constructed so far: instance -> engine state
    mrusers,             \* instance -> the trials that have drawn from it
    tloc,                \* the locals of each trial body
    mcresultavg,         \* tbb::concurrent_vector<mymap>
    mcresultwinningavg,  \* tbb::concurrent_vector<mymap2>
    cnt,                 \* how many keys of cbarray the initialisation loop has inserted
    trial,               \* the myhashmap of aggregateWinningAvg: key -> counter
    holders,             \* key -> the tasks holding an accessor to its element
    atask,               \* the subranges of aggregateWinningAvg's parallel_for
    trialwinningavg,     \* the flat_map aggregateWinningAvg returns
    evalseq,             \* the evaluator on its own: the string under evaluation
    evalfind,            \* the last myfind call on it
    evalavg,             \* montecarloImplAvg's map for it
    evalwin,             \* montecarloImplWinningAvg's map for it
    comb,                \* the locals of makecombination: i, j, cnt and the array cb
    sum,                 \* the locals of sumMontecarloAvg: its map trial and its iterators
    trialavg,            \* the mymap sumMontecarloAvg returns to main
    cp,                  \* the markers the CheckPoint object has received, and its calls
    rep,                 \* what main has written to std::cout, and its loop variables
    gen,                 \* the generator on its own: source, draws and string so far
    config,              \* a run of main under other values of the constants
    serial               \* the locals of the serial aggregateWinningAvg

vars ==
    <<pc, tpc, mr, mrusers, tloc, mcresultavg, mcresultwinningavg, cnt, trial,
      holders, atask, trialwinningavg, evalseq, evalfind, evalavg, evalwin,
      comb, sum, trialavg, cp, rep, gen, config, serial>>

runvars == <<tpc, mr, mrusers, tloc, mcresultavg, mcresultwinningavg>>

aggvars == <<cnt, trial, holders, atask, trialwinningavg>>

evalvars == <<evalseq, evalfind, evalavg, evalwin>>

mainvars == <<comb, sum, trialavg, cp, rep>>

sidevars == <<gen, config, serial>>

Trials == 0..(MCMAX - 1)

PairSet == {cbarray[i] : i \in 1..Len(cbarray)}

Seeds == 0..MaxSeed

\* A slot of a concurrent_vector that is allocated and not yet constructed.
Unconstructed == [constructed |-> FALSE, value |-> <<>>]

NoFind == [str |-> <<>>, pos |-> 0]

\* std::array<strpair, 56U> cb; every pair default-constructed.
NewCb == [k \in 0..55 |-> << <<>>, <<>> >>]

\* The locals of makecombination before its loops.
NewComb == [i |-> 0, j |-> 0, cnt |-> 0, cb |-> NewCb]

\* The locals of makecombination when it returns.
ReturnedComb ==
    [i |-> Len(udarray), j |-> 0, cnt |-> Len(cbarray),
     cb |-> [k \in 0..55 |-> cbarray[k + 1]]]

\* The locals of sumMontecarloAvg before its loops.
NewSum == [trial |-> <<>>, k |-> 0, i |-> 0, pos |-> 1]

\* Nothing written to std::cout yet.
NewRep == [avg |-> <<>>, header |-> <<>>, rows |-> <<>>, i |-> 0, j |-> 0, itr |-> 0]

IdleGen == [mr0 |-> 0, mr |-> 0, draws |-> <<>>, udstring |-> <<>>]

IdleConfig ==
    [MCMAX |-> MCMAX, RANDNUMTABLELEN |-> RANDNUMTABLELEN, patterns |-> Len(udarray),
     pc |-> "idle", trials |-> 0, hashmap |-> "none"]

\* The serial aggregateWinningAvg before its loops: an empty mymap3.
IdleSerial == [trialwinningavg |-> <<>>, n |-> 0, i |-> 0]

\* The program as it is loaded: the dynamic initialisation of cbarray, which
\* calls makecombination, comes before main.
Init ==
    /\ pc = "makecombination"
    /\ comb = NewComb
    /\ sum = NewSum
    /\ trialavg = <<>>
    /\ cp = <<>>
    /\ rep = NewRep
    /\ gen = IdleGen
    /\ config = IdleConfig
    /\ serial = IdleSerial
    /\ tpc = [t \in Trials |-> "ready"]
    /\ mr = <<>>
    /\ mrusers = <<>>
    /\ tloc = [t \in Trials |->
                 [mr |-> 0, udstr1 |-> <<>>, avg |-> <<>>, avgidx |-> 0,
                  udstr2 |-> <<>>, win |-> <<>>, winidx |-> 0]]
    /\ mcresultavg = <<>>
    /\ mcresultwinningavg = <<>>
    /\ cnt = 0
    /\ trial = <<>>
    /\ holders = [sp \in PairSet |-> {}]
    /\ atask = <<>>
    /\ trialwinningavg = <<>>
    /\ evalseq = <<>>
    /\ evalfind = NoFind
    /\ evalavg = <<>>
    /\ evalwin = <<>>

\* ------------------------------------- static initialisation and main's start
CombinationTakenAlways(i, j) == TRUE

\* if (i != j): the pairs makecombination stores.
CombinationTaken(i, j) == i # j

\* One pass of the inner loop of makecombination, or, when the inner loop is
\* over, the step of the outer loop.  A store outside cb is undefined behaviour.
MakecombinationStep ==
    /\ pc = "makecombination"
    /\ comb.i < Len(udarray)
    /\ IF comb.j = Len(udarray)
       THEN /\ comb' = [comb EXCEPT !.i = @ + 1, !.j = 0]
            /\ pc' = pc
       ELSE IF ~CombinationTaken(comb.i, comb.j)
       THEN /\ comb' = [comb EXCEPT !.j = @ + 1]
            /\ pc' = pc
       ELSE IF comb.cnt \in DOMAIN comb.cb
       THEN /\ comb' = [comb EXCEPT
                           !.cb[comb.cnt] = <<udarray[comb.i + 1], udarray[comb.j + 1]>>,
                           !.cnt = @ + 1,
                           !.j = @ + 1]
            /\ pc' = pc
       ELSE /\ comb' = comb
            /\ pc' = "undefined"
    /\ UNCHANGED <<runvars, aggvars, evalvars, sum, trialavg, cp, rep, sidevars>>

\* makecombination returns cb, cbarray is initialised and main is entered.
MakecombinationReturn ==
    /\ pc = "makecombination"
    /\ comb.i = Len(udarray)
    /\ pc' = "main"
    /\ UNCHANGED <<runvars, aggvars, evalvars, mainvars, sidevars>>

CheckpointUnrecorded(name, line) == cp

\* cp.checkpoint(name, __LINE__)
Checkpoint(name, line) == Append(cp, [call |-> "checkpoint", name |-> name, line |-> line])

\* CheckPoint cp; cp.checkpoint("処理開始", __LINE__); then main calls montecarloTBB.
MainStart ==
    /\ pc = "main"
    /\ cp' = Checkpoint("start", 199)
    /\ pc' = "montecarloTBB"
    /\ UNCHANGED <<runvars, aggvars, evalvars, comb, sum, trialavg, rep, sidevars>>

\* ------------------------------------------------------------ montecarloTBB
NewRandShared(t) == 0

\* The random source a trial body constructs: the local mr of the lambda, one
\* instance per invocation.
NewRand(t) == t

NextIndexAfterConstructed(v) == Cardinality({k \in 1..Len(v) : v[k].constructed}) + 1

\* concurrent_vector::emplace_back takes its index by an atomic
\* fetch-and-increment of the vector's size.
NextIndex(v) == Len(v) + 1

\* The vector once index k is allocated.
Allocate(v, k) == IF k > Len(v) THEN Append(v, Unconstructed) ELSE v

ConstructAtFront(v, k, x) == [v EXCEPT ![1] = [constructed |-> TRUE, value |-> x]]

\* The vector once the element at index k is constructed from value x.
Construct(v, k, x) == [v EXCEPT ![k] = [constructed |-> TRUE, value |-> x]]

\* MyRand mr(1, 6): the constructor seeds the engine from the random device.
TrialBegin(t) ==
    /\ pc = "montecarloTBB"
    /\ tpc[t] = "ready"
    /\ \E seed \in Seeds :
         mr' = IF NewRand(t) \in DOMAIN mr THEN mr ELSE mr @@ (NewRand(t) :> seed)
    /\ mrusers' = IF NewRand(t) \in DOMAIN mrusers THEN mrusers
                  ELSE mrusers @@ (NewRand(t) :> {})
    /\ tloc' = [tloc EXCEPT ![t].mr = NewRand(t)]
    /\ tpc' = [tpc EXCEPT ![t] = "avg"]
    /\ UNCHANGED <<pc, mcresultavg, mcresultwinningavg, aggvars, evalvars, mainvars, sidevars>>

\* montecarloImplAvg(mr) and the first half of emplace_back: the index is taken.
TrialAvg(t) ==
    /\ pc = "montecarloTBB"
    /\ tpc[t] = "avg"
    /\ LET r == ImplAvgOn[mr[tloc[t].mr] + 1]
           k == NextIndex(mcresultavg)
       IN  /\ mr' = [mr EXCEPT ![tloc[t].mr] = r.mr]
           /\ mrusers' = [mrusers EXCEPT ![tloc[t].mr] = @ \cup {t}]
           /\ tloc' = [tloc EXCEPT ![t].udstr1 = r.udstr, ![t].avg = r.result,
                                   ![t].avgidx = k]
           /\ mcresultavg' = Allocate(mcresultavg, k)
    /\ tpc' = [tpc EXCEPT ![t] = "avg_emplace"]
    /\ UNCHANGED <<pc, mcresultwinningavg, aggvars, evalvars, mainvars, sidevars>>

\* The second half of emplace_back: the element is constructed in its slot.
TrialAvgEmplace(t) ==
    /\ pc = "montecarloTBB"
    /\ tpc[t] = "avg_emplace"
    /\ mcresultavg' = Construct(mcresultavg, tloc[t].avgidx, tloc[t].avg)
    /\ tpc' = [tpc EXCEPT ![t] = "win"]
    /\ UNCHANGED <<pc, mr, mrusers, tloc, mcresultwinningavg, aggvars, evalvars, mainvars, sidevars>>

\* montecarloImplWinningAvg(mr) and the first half of emplace_back.
TrialWin(t) ==
    /\ pc = "montecarloTBB"
    /\ tpc[t] = "win"
    /\ LET r == ImplWinningAvgOn[mr[tloc[t].mr] + 1]
           k == NextIndex(mcresultwinningavg)
       IN  /\ mr' = [mr EXCEPT ![tloc[t].mr] = r.mr]
           /\ mrusers' = [mrusers EXCEPT ![tloc[t].mr] = @ \cup {t}]
           /\ tloc' = [tloc EXCEPT ![t].udstr2 = r.udstr, ![t].win = r.result,
                                   ![t].winidx = k]
           /\ mcresultwinningavg' = Allocate(mcresultwinningavg, k)
    /\ tpc' = [tpc EXCEPT ![t] = "win_emplace"]
    /\ UNCHANGED <<pc, mcresultavg, aggvars, evalvars, mainvars, sidevars>>

\* The second half of emplace_back; the trial body returns.
TrialWinEmplace(t) ==
    /\ pc = "montecarloTBB"
    /\ tpc[t] = "win_emplace"
    /\ mcresultwinningavg' = Construct(mcresultwinningavg, tloc[t].winidx, tloc[t].win)
    /\ tpc' = [tpc EXCEPT ![t] = "done"]
    /\ UNCHANGED <<pc, mr, mrusers, tloc, mcresultavg, aggvars, evalvars, mainvars, sidevars>>

ParallelForJoinedAny == \E t \in Trials : tpc[t] = "done"

\* tbb::parallel_for returns when every iteration of the range has run.
ParallelForJoined == \A t \in Trials : tpc[t] = "done"

\* parallel_for returns once every iteration has run; montecarloTBB returns the
\* two vectors and main calls aggregateWinningAvg.
MontecarloTBBReturn ==
    /\ pc = "montecarloTBB"
    /\ ParallelForJoined
    /\ pc' = "aggregate_init"
    /\ UNCHANGED <<runvars, aggvars, evalvars, mainvars, sidevars>>

\* ------------------------------------------------------ aggregateWinningAvg
PreRegisterKeysButFirst == Tail(cbarray)

\* The keys the initialisation loop of aggregateWinningAvg inserts, in order.
PreRegisterKeys == cbarray

\* trial.insert(a, sp); a->second = 0U; for the next key of the loop.
PreRegister ==
    /\ pc = "aggregate_init"
    /\ cnt < Len(PreRegisterKeys)
    /\ LET sp == PreRegisterKeys[cnt + 1]
       IN  trial' = IF sp \in DOMAIN trial THEN [trial EXCEPT ![sp] = 0]
                    ELSE trial @@ (sp :> 0)
    /\ cnt' = cnt + 1
    /\ UNCHANGED <<pc, runvars, holders, atask, trialwinningavg, evalvars, mainvars, sidevars>>

\* A subrange of the parallel_for that no thread has started on.
NewTask(lo, hi) == [hi |-> hi, i |-> lo, pos |-> 1, st |-> "ready", tmp |-> 0]

RangeEndShort == MCMAX - 1

\* The end of the blocked_range that parallel_for is called on.
RangeEnd == MCMAX

\* The loop is over: tbb::parallel_for is called on blocked_range(0, MCMAX).
AggStart ==
    /\ pc = "aggregate_init"
    /\ cnt = Len(PreRegisterKeys)
    /\ pc' = "aggregate_parallel"
    /\ atask' = (0 :> NewTask(0, RangeEnd))
    /\ UNCHANGED <<runvars, cnt, trial, holders, trialwinningavg, evalvars, mainvars, sidevars>>

\* blocked_range's splitting constructor: a range longer than the grain size
\* (1) is cut at its middle and the upper half becomes a task of its own.
AggSplit(lo) ==
    /\ pc = "aggregate_parallel"
    /\ atask[lo].st = "ready"
    /\ atask[lo].hi - lo > 1
    /\ LET mid == lo + ((atask[lo].hi - lo) \div 2)
       IN  atask' = [atask EXCEPT ![lo].hi = mid] @@ (mid :> NewTask(mid, atask[lo].hi))
    /\ UNCHANGED <<pc, runvars, cnt, trial, holders, trialwinningavg, evalvars, mainvars, sidevars>>

\* if (itr->second): the entries of a trial's map that are counted.
Counted(e) == e.second

RECURSIVE Advance(_, _, _)
\* The two loops of the lambda, run from entry pos of element i up to the next
\* entry whose itr->second is true, or to the end of the range [.., hi).
Advance(i, pos, hi) ==
    IF i >= hi THEN [hi |-> hi, i |-> hi, pos |-> 1, st |-> "done", tmp |-> 0]
    ELSE LET mcr == mcresultwinningavg[i + 1].value
         IN  IF pos > Len(mcr) THEN Advance(i + 1, 1, hi)
             ELSE IF Counted(mcr[pos])
                  THEN [hi |-> hi, i |-> i, pos |-> pos, st |-> "want", tmp |-> 0]
                  ELSE Advance(i, pos + 1, hi)

\* The key the iterator of a task points at.
TaskKey(lo) == mcresultwinningavg[atask[lo].i + 1].value[atask[lo].pos].first

\* A thread takes the subrange and runs the lambda up to its first insert.
AggBegin(lo) ==
    /\ pc = "aggregate_parallel"
    /\ atask[lo].st = "ready"
    /\ atask' = [atask EXCEPT ![lo] = Advance(lo, 1, atask[lo].hi)]
    /\ UNCHANGED <<pc, runvars, cnt, trial, holders, trialwinningavg, evalvars, mainvars, sidevars>>

ReleaseNever(h, lo) == h

\* The destructor of the accessor releases the lock on its element.
Release(h, lo) == h \ {lo}

CanAcquireAlways(h) == TRUE

\* An accessor is a write lock on its element: insert(a, key) waits until no
\* other accessor holds the element.
CanAcquire(h) == h = {}

\* trial.insert(a, itr->first): find the element or insert it with a
\* value-initialised counter, and lock it.
AggInsert(lo) ==
    /\ pc = "aggregate_parallel"
    /\ atask[lo].st = "want"
    /\ CanAcquire(holders[TaskKey(lo)])
    /\ holders' = [holders EXCEPT ![TaskKey(lo)] = @ \cup {lo}]
    /\ trial' = IF TaskKey(lo) \in DOMAIN trial THEN trial ELSE trial @@ (TaskKey(lo) :> 0)
    /\ atask' = [atask EXCEPT ![lo].st = "locked"]
    /\ UNCHANGED <<pc, runvars, cnt, trialwinningavg, evalvars, mainvars, sidevars>>

\* a->second++ reads the counter ...
AggLoad(lo) ==
    /\ pc = "aggregate_parallel"
    /\ atask[lo].st = "locked"
    /\ atask' = [atask EXCEPT ![lo].st = "loaded", ![lo].tmp = trial[TaskKey(lo)]]
    /\ UNCHANGED <<pc, runvars, cnt, trial, holders, trialwinningavg, evalvars, mainvars, sidevars>>

\* ... and writes it back incremented; the accessor goes out of scope and
\* releases the element; the loops run on to the next insert.
AggStore(lo) ==
    /\ pc = "aggregate_parallel"
    /\ atask[lo].st = "loaded"
    /\ trial' = [trial EXCEPT ![TaskKey(lo)] = atask[lo].tmp + 1]
    /\ holders' = [holders EXCEPT ![TaskKey(lo)] = Release(@, lo)]
    /\ atask' = [atask EXCEPT ![lo] = Advance(atask[lo].i, atask[lo].pos + 1, atask[lo].hi)]
    /\ UNCHANGED <<pc, runvars, cnt, trialwinningavg, evalvars, mainvars, sidevars>>

\* parallel_for returns once every subrange is done.
AggJoin ==
    /\ pc = "aggregate_parallel"
    /\ \A lo \in DOMAIN atask : atask[lo].st = "done"
    /\ pc' = "aggregate_copy"
    /\ UNCHANGED <<runvars, aggvars, evalvars, mainvars, sidevars>>

\* The elements of the hash map the range-for has not come to yet.
CopyRest == DOMAIN trial \ FlatKeys(trialwinningavg)

\* trialwinningavg[res.first] = res.second; for the next element of the hash
\* map, in the order its iterator has.
CopyLoop ==
    /\ pc = "aggregate_copy"
    /\ CopyRest # {}
    /\ LET k == CHOOSE x \in CopyRest : TRUE
       IN  trialwinningavg' = Map3Assign(trialwinningavg, k, trial[k])
    /\ UNCHANGED <<pc, runvars, cnt, trial, holders, atask, evalvars, mainvars, sidevars>>

\* The copy is complete and is returned to main.
AggregateReturn ==
    /\ pc = "aggregate_copy"
    /\ CopyRest = {}
    /\ pc' = "aggregated"
    /\ UNCHANGED <<runvars, aggvars, evalvars, mainvars, sidevars>>

\* cp.checkpoint("並列化有効", __LINE__); then main calls sumMontecarloAvg.
MainCheckpointParallel ==
    /\ pc = "aggregated"
    /\ cp' = Checkpoint("parallel", 219)
    /\ pc' = "sum_init"
    /\ UNCHANGED <<runvars, aggvars, evalvars, comb, sum, trialavg, rep, sidevars>>

\* --------------------------------------------------------- sumMontecarloAvg
\* mymap::operator[] followed by an assignment.
MapAssign(m, k, v) ==
    LET n == MapLowerBound(m, k, 0, Len(m))
    IN  IF n < Len(m) /\ m[n + 1].first = k
        THEN [m EXCEPT ![n + 1].second = v]
        ELSE FlatPlace(m, n, k, v)

\* mymap::operator[] read: a key that is absent is inserted value-initialised.
MapRef(m, k) == IF FlatFind(m, k) # 0 THEN FlatAt(m, k) ELSE 0

\* trial[str] = 0; for the next pattern of udarray.
SumInit ==
    /\ pc = "sum_init"
    /\ sum.k < Len(udarray)
    /\ sum' = [sum EXCEPT !.trial = MapAssign(sum.trial, udarray[sum.k + 1], 0),
                          !.k = @ + 1]
    /\ UNCHANGED <<pc, runvars, aggvars, evalvars, comb, trialavg, cp, rep, sidevars>>

SumEndBeforeLast(v) == Len(v) - 1

\* mcresultavg.end(): the range-for runs over every element of the vector.
SumEnd(v) == Len(v)

\* The initialisation is over and the range-for over mcresultavg begins.
SumStart ==
    /\ pc = "sum_init"
    /\ sum.k = Len(udarray)
    /\ pc' = "sum_loop"
    /\ UNCHANGED <<runvars, aggvars, evalvars, mainvars, sidevars>>

SumAddOverwrite(a, b) == b

\* operator+= on the std::uint32_t of the map.
SumAdd(a, b) == a + b

\* trial[itr->first] += itr->second; for the next entry of the next element;
\* an element that is not constructed yet is read as garbage.
SumStep ==
    /\ pc = "sum_loop"
    /\ sum.i < SumEnd(mcresultavg)
    /\ LET mcr == mcresultavg[sum.i + 1]
       IN  IF ~mcr.constructed
           THEN /\ pc' = "undefined"
                /\ sum' = sum
           ELSE IF sum.pos > Len(mcr.value)
           THEN /\ pc' = pc
                /\ sum' = [sum EXCEPT !.i = @ + 1, !.pos = 1]
           ELSE /\ pc' = pc
                /\ sum' = [sum EXCEPT
                             !.trial = MapAssign(sum.trial, mcr.value[sum.pos].first,
                                                 SumAdd(MapRef(sum.trial, mcr.value[sum.pos].first),
                                                        mcr.value[sum.pos].second)),
                             !.pos = @ + 1]
    /\ UNCHANGED <<runvars, aggvars, evalvars, comb, trialavg, cp, rep, sidevars>>

\* sumMontecarloAvg returns its map to main.
SumReturn ==
    /\ pc = "sum_loop"
    /\ sum.i >= SumEnd(mcresultavg)
    /\ trialavg' = sum.trial
    /\ pc' = "report_avg"
    /\ UNCHANGED <<runvars, aggvars, evalvars, comb, sum, cp, rep, sidevars>>

\* ------------------------------------------------------------ main's report
\* operator<< of a double under std::fixed and setprecision(1): the number of
\* tenths printed for num / den, the quotient rounded to the nearest tenth and
\* a tie to the even one (exact for the denominators of the model, whose ties
\* are representable doubles).
Fixed1(num, den) ==
    LET q == (10 * num) \div den
        r == (10 * num) % den
    IN  IF 2 * r > den \/ (2 * r = den /\ q % 2 = 1) THEN q + 1 ELSE q

RECURSIVE ReportAvgLoop(_, _)
\* The loop that prints the expectation of each pattern.
ReportAvgLoop(n, out) ==
    IF n > Len(trialavg) THEN out
    ELSE ReportAvgLoop(n + 1, Append(out, [first |-> trialavg[n].first,
                                           tenths |-> Fixed1(trialavg[n].second, MCMAX)]))

\* The expectations are printed, then the header line of the matrix;
\* itr = trialwinningavg.begin().
ReportAvg ==
    /\ pc = "report_avg"
    /\ rep' = [rep EXCEPT !.avg = ReportAvgLoop(1, <<>>),
                          !.header = [i \in 1..8 |-> udarray[i]],
                          !.i = 0, !.j = 0, !.itr = 0]
    /\ pc' = "report_row"
    /\ UNCHANGED <<runvars, aggvars, evalvars, comb, sum, trialavg, cp, sidevars>>

\* std::cout << itr->first.first at the head of row i; an iterator at the
\* end of the map must not be dereferenced.
ReportRow ==
    /\ pc = "report_row"
    /\ rep.i < Len(udarray)
    /\ IF rep.itr >= Len(trialwinningavg)
       THEN /\ pc' = "undefined"
            /\ rep' = rep
       ELSE /\ pc' = "report_cell"
            /\ rep' = [rep EXCEPT
                         !.rows = Append(@, [label |-> trialwinningavg[rep.itr + 1].first[1],
                                             cells |-> <<>>]),
                         !.j = 0]
    /\ UNCHANGED <<runvars, aggvars, evalvars, comb, sum, trialavg, cp, sidevars>>

OnDiagonalNever(i, j) == FALSE

\* if (i == j): the cells that are left blank.
OnDiagonal(i, j) == i = j

\* std::cout << "     ": a cell without a number.
BlankCell == [blank |-> TRUE, tenths |-> 0]

\* A cell that shows a percentage with one decimal place.
NumberCell(tenths) == [blank |-> FALSE, tenths |-> tenths]

\* The cell of row i, column j: blank on the diagonal, else the percentage
\* of itr->second, and ++itr.
ReportCell ==
    /\ pc = "report_cell"
    /\ rep.j < Len(udarray)
    /\ IF OnDiagonal(rep.i, rep.j)
       THEN /\ pc' = pc
            /\ rep' = [rep EXCEPT !.rows[Len(rep.rows)].cells = Append(@, BlankCell),
                                  !.j = @ + 1]
       ELSE IF rep.itr >= Len(trialwinningavg)
       THEN /\ pc' = "undefined"
            /\ rep' = rep
       ELSE /\ pc' = pc
            /\ rep' = [rep EXCEPT
                         !.rows[Len(rep.rows)].cells =
                             Append(@, NumberCell(Fixed1(100 * trialwinningavg[rep.itr + 1].second,
                                                         MCMAX))),
                         !.j = @ + 1,
                         !.itr = @ + 1]
    /\ UNCHANGED <<runvars, aggvars, evalvars, comb, sum, trialavg, cp, sidevars>>

\* The inner loop is over: std::cout << '\n' and the next row.
ReportRowEnd ==
    /\ pc = "report_cell"
    /\ rep.j = Len(udarray)
    /\ rep' = [rep EXCEPT !.i = @ + 1]
    /\ pc' = "report_row"
    /\ UNCHANGED <<runvars, aggvars, evalvars, comb, sum, trialavg, cp, sidevars>>

\* cp.checkpoint("それ以外の処理", __LINE__) after the last row.
MainCheckpointRest ==
    /\ pc = "report_row"
    /\ rep.i = Len(udarray)
    /\ cp' = Checkpoint("rest", 257)
    /\ pc' = "checkpoint_print"
    /\ UNCHANGED <<runvars, aggvars, evalvars, comb, sum, trialavg, rep, sidevars>>

\* cp.checkpoint_print();
MainCheckpointPrint ==
    /\ pc = "checkpoint_print"
    /\ cp' = Append(cp, [call |-> "checkpoint_print", name |-> "", line |-> 259])
    /\ pc' = "goexit"
    /\ UNCHANGED <<runvars, aggvars, evalvars, comb, sum, trialavg, rep, sidevars>>

\* goexit::goexit(); return 0;
MainGoexit ==
    /\ pc = "goexit"
    /\ cp' = Append(cp, [call |-> "goexit", name |-> "", line |-> 261])
    /\ pc' = "returned"
    /\ UNCHANGED <<runvars, aggvars, evalvars, comb, sum, trialavg, rep, sidevars>>

\* ---------------------------------------------------------- specifications
Next ==
    \/ MakecombinationStep
    \/ MakecombinationReturn
    \/ MainStart
    \/ \E t \in Trials : TrialBegin(t)
    \/ \E t \in Trials : TrialAvg(t)
    \/ \E t \in Trials : TrialAvgEmplace(t)
    \/ \E t \in Trials : TrialWin(t)
    \/ \E t \in Trials : TrialWinEmplace(t)
    \/ MontecarloTBBReturn
    \/ PreRegister
    \/ AggStart
    \/ \E lo \in DOMAIN atask : AggSplit(lo)
    \/ \E lo \in DOMAIN atask : AggBegin(lo)
    \/ \E lo \in DOMAIN atask : AggInsert(lo)
    \/ \E lo \in DOMAIN atask : AggLoad(lo)
    \/ \E lo \in DOMAIN atask : AggStore(lo)
    \/ AggJoin
    \/ CopyLoop
    \/ AggregateReturn
    \/ MainCheckpointParallel
    \/ SumInit
    \/ SumStart
    \/ SumStep
    \/ SumReturn
    \/ ReportAvg
    \/ ReportRow
    \/ ReportCell
    \/ ReportRowEnd
    \/ MainCheckpointRest
    \/ MainCheckpointPrint
    \/ MainGoexit

Spec == Init /\ [][Next]_vars

\* The thread of main: static initialisation, main, and the functions it
\* runs itself.
MainThread ==
    \/ MakecombinationStep
    \/ MakecombinationReturn
    \/ MainStart
    \/ MontecarloTBBReturn
    \/ PreRegister
    \/ AggStart
    \/ AggJoin
    \/ CopyLoop
    \/ AggregateReturn
    \/ MainCheckpointParallel
    \/ SumInit
    \/ SumStart
    \/ SumStep
    \/ SumReturn
    \/ ReportAvg
    \/ ReportRow
    \/ ReportCell
    \/ ReportRowEnd
    \/ MainCheckpointRest
    \/ MainCheckpointPrint
    \/ MainGoexit

\* The body of iteration t of montecarloTBB's parallel_for.
TrialBody(t) ==
    \/ TrialBegin(t)
    \/ TrialAvg(t)
    \/ TrialAvgEmplace(t)
    \/ TrialWin(t)
    \/ TrialWinEmplace(t)

\* The task of aggregateWinningAvg's parallel_for whose subrange begins at lo.
AggTask(lo) ==
    /\ lo \in DOMAIN atask
    /\ \/ AggSplit(lo)
       \/ AggBegin(lo)
       \/ AggInsert(lo)
       \/ AggLoad(lo)
       \/ AggStore(lo)

\* The scheduler of TBB runs every task that can run, and main's thread runs:
\* no thread that can take a step is left waiting forever.
Fairness ==
    /\ WF_vars(MainThread)
    /\ \A t \in Trials : WF_vars(TrialBody(t))
    /\ \A lo \in Trials : WF_vars(AggTask(lo))

SpecFair == Spec /\ Fairness

\* Every string of RANDNUMTABLELEN characters over U and D.
UDStrings == [1..RANDNUMTABLELEN -> {"U", "D"}]

\* The trial evaluator on its own, applied to any string the generator can return.
InitEval ==
    /\ pc = "montecarloTBB"
    /\ comb = ReturnedComb
    /\ sum = NewSum
    /\ trialavg = <<>>
    /\ cp = <<>>
    /\ rep = NewRep
    /\ gen = IdleGen
    /\ config = IdleConfig
    /\ serial = IdleSerial
    /\ tpc = [t \in Trials |-> "ready"]
    /\ mr = <<>>
    /\ mrusers = <<>>
    /\ tloc = [t \in Trials |->
                 [mr |-> 0, udstr1 |-> <<>>, avg |-> <<>>, avgidx |-> 0,
                  udstr2 |-> <<>>, win |-> <<>>, winidx |-> 0]]
    /\ mcresultavg = <<>>
    /\ mcresultwinningavg = <<>>
    /\ cnt = 0
    /\ trial = <<>>
    /\ holders = [sp \in PairSet |-> {}]
    /\ atask = <<>>
    /\ trialwinningavg = <<>>
    /\ evalseq \in UDStrings
    /\ evalfind = NoFind
    /\ evalavg = <<>>
    /\ evalwin = <<>>

\* myfind(str, udstr) for one of the patterns.
EvalFind(str) ==
    /\ evalfind' = [str |-> str, pos |-> myfind(str, evalseq)]
    /\ UNCHANGED <<pc, runvars, aggvars, evalseq, evalavg, evalwin, mainvars, sidevars>>

\* The loop of montecarloImplAvg on the string.
EvalAvg ==
    /\ evalavg = <<>>
    /\ evalavg' = AvgLoop(evalseq, 1, <<>>)
    /\ UNCHANGED <<pc, runvars, aggvars, evalseq, evalfind, evalwin, mainvars, sidevars>>

\* The loop of montecarloImplWinningAvg on the same string.
EvalWin ==
    /\ evalwin = <<>>
    /\ evalwin' = WinLoop(evalseq, 1, <<>>)
    /\ UNCHANGED <<pc, runvars, aggvars, evalseq, evalfind, evalavg, mainvars, sidevars>>

NextEval ==
    \/ \E k \in 1..Len(udarray) : EvalFind(udarray[k])
    \/ EvalAvg
    \/ EvalWin

SpecEval == InitEval /\ [][NextEval]_vars

\* Every state the engine of a random source can be in.
MyRandStates == 0..(MyRandModulus - 1)

\* The trial bodies, each started on a random source of its own in one and
\* the same state, and the generator on its own, started in that state too.
InitTrial ==
    /\ pc = "montecarloTBB"
    /\ comb = ReturnedComb
    /\ sum = NewSum
    /\ trialavg = <<>>
    /\ cp = <<>>
    /\ rep = NewRep
    /\ config = IdleConfig
    /\ serial = IdleSerial
    /\ tpc = [t \in Trials |-> "avg"]
    /\ \E s \in MyRandStates :
         /\ mr = [id \in {NewRand(t) : t \in Trials} |-> s]
         /\ gen = [mr0 |-> s, mr |-> s, draws |-> <<>>, udstring |-> <<>>]
    /\ mrusers = [id \in {NewRand(t) : t \in Trials} |-> {}]
    /\ tloc = [t \in Trials |->
                 [mr |-> NewRand(t), udstr1 |-> <<>>, avg |-> <<>>, avgidx |-> 0,
                  udstr2 |-> <<>>, win |-> <<>>, winidx |-> 0]]
    /\ mcresultavg = <<>>
    /\ mcresultwinningavg = <<>>
    /\ cnt = 0
    /\ trial = <<>>
    /\ holders = [sp \in PairSet |-> {}]
    /\ atask = <<>>
    /\ trialwinningavg = <<>>
    /\ evalseq = <<>>
    /\ evalfind = NoFind
    /\ evalavg = <<>>
    /\ evalwin = <<>>

\* One pass of the range-for of makerandomudstr: a draw from the source and
\* the assignment of the next character.
GenStep ==
    /\ Len(gen.udstring) < RANDNUMTABLELEN
    /\ LET r == myrand(gen.mr)
       IN  gen' = [gen EXCEPT !.mr = r.mr,
                             !.draws = Append(@, r.value),
                             !.udstring = Append(@, UDSymbol(r.value))]
    /\ UNCHANGED <<pc, runvars, aggvars, evalvars, mainvars, config, serial>>

NextTrial ==
    \/ \E t \in Trials : TrialAvg(t)
    \/ \E t \in Trials : TrialAvgEmplace(t)
    \/ \E t \in Trials : TrialWin(t)
    \/ \E t \in Trials : TrialWinEmplace(t)
    \/ GenStep

SpecTrial == InitTrial /\ [][NextTrial]_vars

\* The values the three constants of the program can be built with: MCMAX,
\* RANDNUMTABLELEN and the number of patterns in udarray.
Configs ==
    {[MCMAX |-> n, RANDNUMTABLELEN |-> l, patterns |-> k,
      pc |-> "main", trials |-> 0, hashmap |-> "none"] :
        n \in 0..MaxTrials, l \in 0..MaxLen, k \in {0, Len(udarray)}}

\* main, from its entry to the initialisation loop of aggregateWinningAvg, in
\* a program built with any of these values.
InitConfig ==
    /\ pc = "montecarloTBB"
    /\ comb = ReturnedComb
    /\ sum = NewSum
    /\ trialavg = <<>>
    /\ cp = <<>>
    /\ rep = NewRep
    /\ gen = IdleGen
    /\ serial = IdleSerial
    /\ config \in Configs
    /\ tpc = [t \in Trials |-> "ready"]
    /\ mr = <<>>
    /\ mrusers = <<>>
    /\ tloc = [t \in Trials |->
                 [mr |-> 0, udstr1 |-> <<>>, avg |-> <<>>, avgidx |-> 0,
                  udstr2 |-> <<>>, win |-> <<>>, winidx |-> 0]]
    /\ mcresultavg = <<>>
    /\ mcresultwinningavg = <<>>
    /\ cnt = 0
    /\ trial = <<>>
    /\ holders = [sp \in PairSet |-> {}]
    /\ atask = <<>>
    /\ trialwinningavg = <<>>
    /\ evalseq = <<>>
    /\ evalfind = NoFind
    /\ evalavg = <<>>
    /\ evalwin = <<>>

\* Lines 197 to 214: the CheckPoint object, the first checkpoint and the call
\* of montecarloTBB; no statement reads MCMAX, RANDNUMTABLELEN or udarray
\* before the call.
ConfigMainStart ==
    /\ config.pc = "main"
    /\ config' = [config EXCEPT !.pc = "montecarloTBB"]
    /\ UNCHANGED <<pc, runvars, aggvars, evalvars, mainvars, gen, serial>>

\* parallel_for(0U, MCMAX, 1U, ...) runs the next of its MCMAX trial bodies.
ConfigTrial ==
    /\ config.pc = "montecarloTBB"
    /\ config.trials < config.MCMAX
    /\ config' = [config EXCEPT !.trials = @ + 1]
    /\ UNCHANGED <<pc, runvars, aggvars, evalvars, mainvars, gen, serial>>

\* parallel_for has run every trial body; montecarloTBB returns and main
\* calls aggregateWinningAvg.
ConfigTrialsReturn ==
    /\ config.pc = "montecarloTBB"
    /\ config.trials = config.MCMAX
    /\ config' = [config EXCEPT !.pc = "aggregateWinningAvg"]
    /\ UNCHANGED <<pc, runvars, aggvars, evalvars, mainvars, gen, serial>>

\* myhashmap trial; the accumulator of the win counts is created.
ConfigHashMap ==
    /\ config.pc = "aggregateWinningAvg"
    /\ config' = [config EXCEPT !.pc = "aggregate_init", !.hashmap = "created"]
    /\ UNCHANGED <<pc, runvars, aggvars, evalvars, mainvars, gen, serial>>

NextConfig ==
    \/ ConfigMainStart
    \/ ConfigTrial
    \/ ConfigTrialsReturn
    \/ ConfigHashMap

SpecConfig == InitConfig /\ [][NextConfig]_vars

\* ------------------------------------- the serial aggregateWinningAvg
\* trialwinningavg[k]++ on a mymap3: operator[] inserts an absent key with a
\* value-initialised counter, and the counter is incremented.
Map3Increment(m, k) ==
    Map3Assign(m, k, (IF FlatFind(m, k) # 0 THEN FlatAt(m, k) ELSE 0) + 1)

SerialCountedAlways(e) == TRUE

\* if (itr->second) of the serial aggregator.
SerialCounted(e) == e.second

RECURSIVE SerialInner(_, _, _)
\* The inner loop of the serial aggregator over the entries of one trial's map.
SerialInner(mcr, pos, m) ==
    IF pos > Len(mcr) THEN m
    ELSE LET next == IF SerialCounted(mcr[pos]) THEN Map3Increment(m, mcr[pos].first)
                     ELSE m
         IN  \* the test makes TLC evaluate the map before the next iteration
             IF Len(next) >= 0 THEN SerialInner(mcr, pos + 1, next) ELSE next

\* trialwinningavg[sp] = 0U; for the next element of cbarray.
SerialInit ==
    /\ pc = "serial_init"
    /\ serial.n < Len(cbarray)
    /\ serial' = [serial EXCEPT
                    !.trialwinningavg = Map3Assign(@, cbarray[serial.n + 1], 0),
                    !.n = @ + 1]
    /\ UNCHANGED <<pc, runvars, aggvars, evalvars, mainvars, gen, config>>

\* The initialisation is over and the range-for over the vector begins.
SerialStart ==
    /\ pc = "serial_init"
    /\ serial.n = Len(cbarray)
    /\ pc' = "serial_loop"
    /\ UNCHANGED <<runvars, aggvars, evalvars, mainvars, sidevars>>

\* One pass of the outer loop: the next trial's map is run through.
SerialElement ==
    /\ pc = "serial_loop"
    /\ serial.i < Len(mcresultwinningavg)
    /\ serial' = [serial EXCEPT
                    !.trialwinningavg =
                        SerialInner(mcresultwinningavg[serial.i + 1].value, 1, @),
                    !.i = @ + 1]
    /\ UNCHANGED <<pc, runvars, aggvars, evalvars, mainvars, gen, config>>

\* The serial aggregator returns its flat_map; the parallel aggregator is
\* then called on a concurrent_vector of the same trial win results.
SerialReturn ==
    /\ pc = "serial_loop"
    /\ serial.i = Len(mcresultwinningavg)
    /\ pc' = "aggregate_init"
    /\ UNCHANGED <<runvars, aggvars, evalvars, mainvars, sidevars>>

\* What a trial body computes on a random source in state s.
TrialOn(s) ==
    LET a == ImplAvgOn[s + 1]
        w == ImplWinningAvgOn[a.mr + 1]
    IN  [avg |-> a, win |-> w]

\* The states of a random source a trial of InitAgg has run from.
AggStates == 0..MaxAggState

\* Both aggregators on their own: the trials are over, trial t having run on
\* a source in one of these states and having appended in its turn.
InitAgg ==
    /\ pc = "serial_init"
    /\ comb = ReturnedComb
    /\ sum = NewSum
    /\ trialavg = <<>>
    /\ cp = <<>>
    /\ rep = NewRep
    /\ gen = IdleGen
    /\ config = IdleConfig
    /\ serial = IdleSerial
    /\ tpc = [t \in Trials |-> "done"]
    /\ mrusers = [t \in Trials |-> {t}]
    /\ \E s \in [Trials -> AggStates] :
         /\ mr = [t \in Trials |-> TrialOn(s[t]).win.mr]
         /\ tloc = [t \in Trials |->
                      [mr |-> NewRand(t),
                       udstr1 |-> TrialOn(s[t]).avg.udstr, avg |-> TrialOn(s[t]).avg.result,
                       avgidx |-> t + 1,
                       udstr2 |-> TrialOn(s[t]).win.udstr, win |-> TrialOn(s[t]).win.result,
                       winidx |-> t + 1]]
         /\ mcresultavg = [k \in 1..MCMAX |->
                             [constructed |-> TRUE, value |-> TrialOn(s[k - 1]).avg.result]]
         /\ mcresultwinningavg = [k \in 1..MCMAX |->
                             [constructed |-> TRUE, value |-> TrialOn(s[k - 1]).win.result]]
    /\ cnt = 0
    /\ trial = <<>>
    /\ holders = [sp \in PairSet |-> {}]
    /\ atask = <<>>
    /\ trialwinningavg = <<>>
    /\ evalseq = <<>>
    /\ evalfind = NoFind
    /\ evalavg = <<>>
    /\ evalwin = <<>>

NextAgg ==
    \/ SerialInit
    \/ SerialStart
    \/ SerialElement
    \/ SerialReturn
    \/ PreRegister
    \/ AggStart
    \/ \E lo \in DOMAIN atask :
         \/ AggSplit(lo)
         \/ AggBegin(lo)
         \/ AggInsert(lo)
         \/ AggLoad(lo)
         \/ AggStore(lo)
    \/ AggJoin
    \/ CopyLoop
    \/ AggregateReturn

SpecAgg == InitAgg /\ [][NextAgg]_vars

\* ------------------------------------------------------------ properties
\* The start indices at which str occurs in udstr as a contiguous substring.
Occurrences(str, udstr) ==
    {i \in 0..(Len(udstr) - Len(str)) : SubSeq(udstr, i + 1, i + Len(str)) = str}

MinOf(S) == CHOOSE x \in S : \A y \in S : x <= y

\* The first-occurrence position of the glossary: the end of the first
\* occurrence, or the length of the string when there is none.
FirstPos(str, udstr) ==
    IF Occurrences(str, udstr) # {}
    THEN MinOf(Occurrences(str, udstr)) + Len(str)
    ELSE Len(udstr)

\* The number of stored trial win results whose entry for sp is true.
WinCount(sp) ==
    Cardinality({i \in 1..Len(mcresultwinningavg) :
                   /\ FlatFind(mcresultwinningavg[i].value, sp) # 0
                   /\ FlatAt(mcresultwinningavg[i].value, sp)})

AllTrialsDone == \A t \in Trials : tpc[t] = "done"

\* The entry for sp of the element at index i has been passed by the task
\* whose subrange holds i.
Passed(i, sp) ==
    \E lo \in DOMAIN atask :
        /\ atask[lo].st # "ready"
        /\ lo <= i
        /\ i < atask[lo].hi
        /\ \/ i < atask[lo].i
           \/ /\ i = atask[lo].i
              /\ FlatFind(mcresultwinningavg[i + 1].value, sp) < atask[lo].pos

\* The number of stored trial win results whose true entry for sp has been
\* passed, that is, the number of increments of sp's counter so far.
PassedCount(sp) ==
    Cardinality({i \in 0..(Len(mcresultwinningavg) - 1) :
                   /\ FlatFind(mcresultwinningavg[i + 1].value, sp) # 0
                   /\ FlatAt(mcresultwinningavg[i + 1].value, sp)
                   /\ Passed(i, sp)})

\* C1: when the parallel reduction of aggregateWinningAvg has finished, the
\* counter of every ordered pair equals the number of trial win results whose
\* entry for that pair is true, whatever the interleaving of the tasks was;
\* and during the reduction every counter equals the number of increments
\* made to it so far, so that no increment is ever lost.
C1_NoLostIncrement ==
    /\ pc = "aggregated" =>
           \A sp \in PairSet :
               /\ FlatFind(trialwinningavg, sp) # 0
               /\ FlatAt(trialwinningavg, sp) = WinCount(sp)
    /\ pc = "aggregate_parallel" =>
           \A sp \in DOMAIN trial : trial[sp] = PassedCount(sp)

\* C1 witness: the range was split into one task per trial and two tasks have
\* incremented the same counter.
C1_Witness ==
    /\ pc = "aggregated"
    /\ Cardinality(DOMAIN atask) = MCMAX
    /\ \E sp \in PairSet : FlatAt(trialwinningavg, sp) = MCMAX

\* C2: when montecarloTBB's parallel_for has finished, each of the two vectors
\* holds exactly MCMAX elements, every trial's map is stored, constructed and
\* unchanged, at an index of its own.
C2_NoLostAppend ==
    AllTrialsDone =>
        /\ Len(mcresultavg) = MCMAX
        /\ Len(mcresultwinningavg) = MCMAX
        /\ \A t \in Trials :
            /\ mcresultavg[tloc[t].avgidx] = [constructed |-> TRUE, value |-> tloc[t].avg]
            /\ mcresultwinningavg[tloc[t].winidx] =
                   [constructed |-> TRUE, value |-> tloc[t].win]
        /\ \A t1, t2 \in Trials :
            t1 # t2 => /\ tloc[t1].avgidx # tloc[t2].avgidx
                       /\ tloc[t1].winidx # tloc[t2].winidx

\* C2 witness: the run is over and the appends interleaved, so that a trial's
\* two maps sit at different indices of the two vectors.
C2_Witness ==
    /\ AllTrialsDone
    /\ \E t \in Trials : tloc[t].avgidx # tloc[t].winidx

\* C3: in a finished trial the win pass used the string of the expectation
\* pass, so the win entry of every pair (A, B) is (expectation of A <
\* expectation of B) of the same trial.
C3_SameSequence ==
    \A t \in Trials :
        tpc[t] = "done" =>
            /\ tloc[t].udstr2 = tloc[t].udstr1
            /\ \A sp \in PairSet :
                 FlatAt(tloc[t].win, sp) =
                     (FlatAt(tloc[t].avg, sp[1]) < FlatAt(tloc[t].avg, sp[2]))

\* C4: myfind returns the lowest start index of the pattern plus the
\* pattern's length when the pattern occurs in the string, and the length of
\* the string when it does not.
C4_Locator ==
    evalfind.str # <<>> =>
        IF Occurrences(evalfind.str, evalseq) # {}
        THEN evalfind.pos = MinOf(Occurrences(evalfind.str, evalseq)) + Len(evalfind.str)
        ELSE evalfind.pos = Len(evalseq)

\* C4 witness: the pattern occurs twice and the locator reports the first.
C4_Witness ==
    /\ evalfind.str # <<>>
    /\ Cardinality(Occurrences(evalfind.str, evalseq)) = 2
    /\ evalfind.pos = Len(evalfind.str)

\* C5 as stated: the result lies in [length(pattern), L] and equals L if and
\* only if the pattern is not a substring of the string.
C5_SentinelIffAbsent ==
    evalfind.str # <<>> =>
        /\ evalfind.pos \in Len(evalfind.str)..RANDNUMTABLELEN
        /\ (evalfind.pos = RANDNUMTABLELEN) <=> (Occurrences(evalfind.str, evalseq) = {})

\* C5 as amended: the result lies in [length(pattern), L]; it is L when the
\* pattern is not a substring; and it is L only when the pattern is not a
\* substring or its first occurrence ends at the last symbol.
C5_SentinelOrLastSymbol ==
    evalfind.str # <<>> =>
        /\ evalfind.pos \in Len(evalfind.str)..RANDNUMTABLELEN
        /\ (Occurrences(evalfind.str, evalseq) = {}) => (evalfind.pos = RANDNUMTABLELEN)
        /\ (evalfind.pos = RANDNUMTABLELEN) <=>
               \/ Occurrences(evalfind.str, evalseq) = {}
               \/ MinOf(Occurrences(evalfind.str, evalseq)) + Len(evalfind.str)
                      = RANDNUMTABLELEN

\* C5 witness: the only occurrence of the pattern ends at the last symbol and
\* the locator returns L.
C5_Witness ==
    /\ evalfind.str # <<>>
    /\ Occurrences(evalfind.str, evalseq) = {RANDNUMTABLELEN - Len(evalfind.str)}
    /\ evalfind.pos = RANDNUMTABLELEN

\* C6: the win pass records true for a pair (A, B) exactly when the locator's
\* position of A is strictly less than that of B; equal positions, both
\* patterns absent included, record false.
C6_WinIsStrictlyLess ==
    evalwin # <<>> =>
        \A sp \in PairSet :
            /\ FlatFind(evalwin, sp) # 0
            /\ FlatAt(evalwin, sp) = (myfind(sp[1], evalseq) < myfind(sp[2], evalseq))
            /\ (myfind(sp[1], evalseq) = myfind(sp[2], evalseq)) => ~FlatAt(evalwin, sp)

\* C6 witness: a pair whose patterns are both absent is recorded false and
\* another pair is recorded true.
C6_Witness ==
    /\ evalwin # <<>>
    /\ \E sp \in PairSet :
         /\ Occurrences(sp[1], evalseq) = {}
         /\ Occurrences(sp[2], evalseq) = {}
         /\ ~FlatAt(evalwin, sp)
    /\ \E sp \in PairSet : FlatAt(evalwin, sp)

\* C7: in a trial win result the entries of (A, B) and (B, A) are never both
\* true, and they are both false exactly when the two first-occurrence
\* positions are equal.
C7_NeverBothWin ==
    evalwin # <<>> =>
        \A sp \in PairSet :
            LET ab == FlatAt(evalwin, sp)
                ba == FlatAt(evalwin, <<sp[2], sp[1]>>)
            IN  /\ ~(ab /\ ba)
                /\ (~ab /\ ~ba) <=> (FirstPos(sp[1], evalseq) = FirstPos(sp[2], evalseq))

\* C7 witness: one pair is tied, with both entries false, and another pair
\* has exactly one entry true.
C7_Witness ==
    /\ evalwin # <<>>
    /\ \E sp \in PairSet :
         ~FlatAt(evalwin, sp) /\ ~FlatAt(evalwin, <<sp[2], sp[1]>>)
    /\ \E sp \in PairSet :
         FlatAt(evalwin, sp) /\ ~FlatAt(evalwin, <<sp[2], sp[1]>>)

\* C8: after the aggregation of a batch, count(A, B) + count(B, A) is at most
\* MCMAX for every two distinct patterns, and equals MCMAX exactly when no
\* trial of the batch had equal positions for A and B.
C8_PairCountsBounded ==
    pc = "aggregated" =>
        \A sp \in PairSet :
            LET c == FlatAt(trialwinningavg, sp)
                         + FlatAt(trialwinningavg, <<sp[2], sp[1]>>)
            IN  /\ c <= MCMAX
                /\ (c = MCMAX) <=>
                       \A t \in Trials :
                           FirstPos(sp[1], tloc[t].udstr2) # FirstPos(sp[2], tloc[t].udstr2)

\* C8 witness: one pair reaches MCMAX and another pair stays below it.
C8_Witness ==
    /\ pc = "aggregated"
    /\ \E sp \in PairSet :
         FlatAt(trialwinningavg, sp) + FlatAt(trialwinningavg, <<sp[2], sp[1]>>) = MCMAX
    /\ \E sp \in PairSet :
         FlatAt(trialwinningavg, sp) + FlatAt(trialwinningavg, <<sp[2], sp[1]>>) < MCMAX

\* C9: all keys of cbarray are in the hash map with value zero, put there by
\* the single thread of the initialisation loop, when the parallel_for starts;
\* the parallel phase never adds a key, so every increment finds its key.
C9_PreRegistered ==
    /\ [][(pc = "aggregate_init" /\ pc' = "aggregate_parallel") =>
              /\ DOMAIN trial = PairSet
              /\ Cardinality(DOMAIN trial) = 56
              /\ \A sp \in PairSet : trial[sp] = 0]_vars
    /\ [][(DOMAIN trial' # DOMAIN trial) =>
              /\ pc = "aggregate_init"
              /\ atask = <<>>
              /\ AllTrialsDone]_vars
    /\ [][(\E sp \in DOMAIN trial : sp \in DOMAIN trial' /\ trial'[sp] = trial[sp] + 1) =>
              /\ pc = "aggregate_parallel"
              /\ DOMAIN trial = PairSet]_vars

\* C9 witness: a concurrent increment has been performed on a map that holds
\* every key.
C9_Witness ==
    /\ pc = "aggregate_parallel"
    /\ Cardinality(DOMAIN trial) = Len(cbarray)
    /\ \E sp \in PairSet : trial[sp] > 0

\* C10: no random source is drawn from by two trials, and no two trial bodies
\* that have started hold the same random source.
C10_OwnRandomSource ==
    /\ \A id \in DOMAIN mrusers : Cardinality(mrusers[id]) <= 1
    /\ \A t1, t2 \in Trials :
         (t1 # t2 /\ tpc[t1] # "ready" /\ tpc[t2] # "ready") => tloc[t1].mr # tloc[t2].mr

\* C10 witness: two trials are running at once and each has drawn from its
\* random source.
C10_Witness ==
    \E t1, t2 \in Trials :
        /\ t1 # t2
        /\ tpc[t1] = "avg_emplace"
        /\ tpc[t2] = "avg_emplace"
        /\ mrusers[tloc[t1].mr] = {t1}
        /\ mrusers[tloc[t2].mr] = {t2}

RECURSIVE SeqSum(_)
\* The sum of a sequence of numbers.
SeqSum(q) == IF q = <<>> THEN 0 ELSE Head(q) + SeqSum(Tail(q))

PatternSet == {udarray[i] : i \in 1..Len(udarray)}

\* The sum of the positions recorded for pattern p over all stored trial
\* expectation results.
PositionSum(p) ==
    SeqSum([i \in 1..Len(mcresultavg) |-> FlatAt(mcresultavg[i].value, p)])

\* The same sum over the entries the loops of sumMontecarloAvg have passed.
PositionSumSoFar(p) ==
    SeqSum([i \in 1..Len(mcresultavg) |->
              IF \/ i - 1 < sum.i
                 \/ (i - 1 = sum.i /\ FlatFind(mcresultavg[i].value, p) < sum.pos)
              THEN FlatAt(mcresultavg[i].value, p)
              ELSE 0])

\* C11: sumMontecarloAvg sets the sum of all 8 patterns to zero before it
\* reads a trial; while it runs, the sum of every pattern is the sum of the
\* entries passed so far, each added once; and the map it returns holds, for
\* each of the 8 patterns, the sum of that pattern's position over all MCMAX
\* trial expectation results.
C11_ExpectationSum ==
    /\ pc = "sum_init" => \A n \in 1..Len(sum.trial) : sum.trial[n].second = 0
    /\ pc = "sum_loop" =>
           /\ FlatKeys(sum.trial) = PatternSet
           /\ Len(sum.trial) = 8
           /\ \A p \in PatternSet : FlatAt(sum.trial, p) = PositionSumSoFar(p)
    /\ pc \in {"report_avg", "report_row", "report_cell", "checkpoint_print",
               "goexit", "returned"} =>
           /\ FlatKeys(trialavg) = PatternSet
           /\ Len(trialavg) = 8
           /\ Len(mcresultavg) = MCMAX
           /\ \A p \in PatternSet : FlatAt(trialavg, p) = PositionSum(p)

\* C11 witness: the sum is returned and, for some pattern, it adds two
\* different positions.
C11_Witness ==
    /\ pc = "report_avg"
    /\ \E p \in PatternSet :
         /\ FlatAt(mcresultavg[1].value, p) # FlatAt(mcresultavg[2].value, p)
         /\ FlatAt(trialavg, p) =
                FlatAt(mcresultavg[1].value, p) + FlatAt(mcresultavg[2].value, p)

\* The configuration invariant of the design: at least one trial, at least
\* one pattern, and a string no shorter than a pattern.
ConfigValid(c) == c.MCMAX > 0 /\ c.patterns > 0 /\ c.RANDNUMTABLELEN >= PatternEnd

TrialPositionSum(p) == SeqSum([n \in 1..MCMAX |-> FlatAt(tloc[n - 1].avg, p)])

TrialWinCount(sp) == Cardinality({t \in Trials : FlatAt(tloc[t].win, sp)})

\* C13: the aggregate expectation sums and the aggregate win counts are
\* determined by the trials' results alone: whatever order the appends put
\* them in the two vectors and however the reduction was scheduled, each sum
\* is the sum over the trials and each count is the count over the trials.
C13_OrderIndependent ==
    /\ Len(trialwinningavg) = Len(cbarray) =>
           \A sp \in PairSet : FlatAt(trialwinningavg, sp) = TrialWinCount(sp)
    /\ trialavg # <<>> =>
           \A p \in PatternSet : FlatAt(trialavg, p) = TrialPositionSum(p)

\* C13 witness: two trials with different results landed in one order in
\* the expectation vector and in the other order in the win vector, and
\* both aggregates are computed.
C13_Witness ==
    /\ trialavg # <<>>
    /\ trialwinningavg # <<>>
    /\ \E t1, t2 \in Trials :
         /\ tloc[t1].avgidx < tloc[t2].avgidx
         /\ tloc[t2].winidx < tloc[t1].winidx
         /\ tloc[t1].avg # tloc[t2].avg
         /\ tloc[t1].win # tloc[t2].win

TrialsComplete ==
    /\ AllTrialsDone
    /\ Len(mcresultavg) = MCMAX
    /\ Len(mcresultwinningavg) = MCMAX
    /\ \A k \in 1..MCMAX : mcresultavg[k].constructed /\ mcresultwinningavg[k].constructed

\* C15: while an aggregator runs, and at every step that changes the state of
\* an aggregator or of the report, all MCMAX trials have completed their
\* appends, so every element an aggregation step reads is constructed; and
\* main reads the win counts for its report only when aggregateWinningAvg has
\* returned them.
C15_PhaseOrdering ==
    /\ [](pc \notin {"makecombination", "main", "montecarloTBB"} => TrialsComplete)
    /\ [](pc # "undefined")
    /\ [][(aggvars' # aggvars \/ sum' # sum \/ trialavg' # trialavg \/ rep' # rep)
             => TrialsComplete]_vars
    /\ [][rep' # rep =>
             /\ \A lo \in DOMAIN atask : atask[lo].st = "done"
             /\ Len(trialwinningavg) = Len(cbarray)]_vars

\* C15 witness: a task of the reduction holds the lock for an entry of the
\* last element of the win vector while the trials are long over.
C15_Witness ==
    /\ pc = "aggregate_parallel"
    /\ \E lo \in DOMAIN atask :
         /\ atask[lo].st = "locked"
         /\ atask[lo].i = MCMAX - 1
         /\ mcresultwinningavg[atask[lo].i + 1].constructed

\* Every ordered pair of two different patterns.
DistinctPairs == {<<a, b>> : a, b \in PatternSet} \ {<<a, a>> : a \in PatternSet}

\* C16: while makecombination runs, its counter is the number of pairs stored
\* so far and every store it is about to make has an index in 0..55 and
\* i # j; the array it returns holds 56 pairs, pairwise different, each of
\* two different patterns, and they are all the ordered pairs of different
\* patterns; no key of the accumulator or of the returned counts is a pair
\* (A, A).
C16_PairKeySpace ==
    /\ pc # "undefined"
    /\ comb.cnt \in 0..56
    /\ (pc = "makecombination" /\ comb.i < Len(udarray) /\ comb.j < Len(udarray)) =>
           /\ comb.cnt = 7 * comb.i + comb.j - (IF comb.j > comb.i THEN 1 ELSE 0)
           /\ CombinationTaken(comb.i, comb.j) => comb.cnt \in 0..55
    /\ pc # "makecombination" =>
           /\ comb.cnt = 56
           /\ \A k \in 0..55 : comb.cb[k][1] # comb.cb[k][2]
           /\ \A k1, k2 \in 0..55 : k1 # k2 => comb.cb[k1] # comb.cb[k2]
           /\ {comb.cb[k] : k \in 0..55} = DistinctPairs
           /\ Cardinality(DistinctPairs) = 56
           /\ cbarray = [k \in 1..56 |-> comb.cb[k - 1]]
    /\ \A sp \in DOMAIN trial : sp[1] # sp[2]
    /\ \A n \in 1..Len(trialwinningavg) :
           trialwinningavg[n].first[1] # trialwinningavg[n].first[2]

\* C16 witness: makecombination has returned, the last pair it stored being
\* (UUU, UUD) at index 55, and the counts are aggregated.
C16_Witness ==
    /\ pc = "aggregated"
    /\ comb.cnt = 56
    /\ comb.cb[55] = <<udarray[8], udarray[7]>>
    /\ Len(trialwinningavg) = 56

\* C17: every constructed element of the expectation vector has exactly 8
\* entries, one for each pattern and no pattern twice, and every constructed
\* element of the win vector has exactly 56 entries, one for each ordered
\* pair of different patterns.
C17_ResultsComplete ==
    /\ \A k \in 1..Len(mcresultavg) :
           mcresultavg[k].constructed =>
               /\ Len(mcresultavg[k].value) = 8
               /\ FlatKeys(mcresultavg[k].value) = PatternSet
               /\ Cardinality(PatternSet) = 8
    /\ \A k \in 1..Len(mcresultwinningavg) :
           mcresultwinningavg[k].constructed =>
               /\ Len(mcresultwinningavg[k].value) = 56
               /\ FlatKeys(mcresultwinningavg[k].value) = DistinctPairs
               /\ Cardinality(DistinctPairs) = 56

\* C17 witness: both vectors are full and hold two different results each.
C17_Witness ==
    /\ AllTrialsDone
    /\ Len(mcresultavg) = MCMAX
    /\ Len(mcresultwinningavg) = MCMAX
    /\ mcresultavg[1].value # mcresultavg[2].value
    /\ mcresultwinningavg[1].value # mcresultwinningavg[2].value
    /\ Len(mcresultwinningavg[2].value) = 56

RECURSIVE StepN(_, _)
\* The engine state n draws after state s.
StepN(s, n) == IF n = 0 THEN s ELSE StepN(MyRandStep(s), n - 1)

\* C18: at every pass of its loop makerandomudstr has made exactly one draw
\* per character written; each draw lies in 1..6 and gives U when it is
\* greater than 3 and D otherwise; the string it returns has exactly
\* RANDNUMTABLELEN characters, each U or D, after exactly RANDNUMTABLELEN
\* draws, and it is the string the trial evaluator gets; a pass changes
\* nothing but the source and the string under construction.
C18_Generator ==
    /\ [](/\ Len(gen.udstring) = Len(gen.draws)
          /\ Len(gen.udstring) <= RANDNUMTABLELEN
          /\ gen.mr = StepN(gen.mr0, Len(gen.draws))
          /\ \A n \in 1..Len(gen.draws) :
                /\ gen.draws[n] \in 1..6
                /\ gen.draws[n] = myrand(StepN(gen.mr0, n - 1)).value
                /\ gen.udstring[n] \in {"U", "D"}
                /\ (gen.udstring[n] = "U") <=> (gen.draws[n] > 3)
          /\ Len(makerandomudstr(gen.mr0).udstring) = RANDNUMTABLELEN
          /\ makerandomudstr(gen.mr0).mr = StepN(gen.mr0, RANDNUMTABLELEN)
          /\ Len(gen.udstring) = RANDNUMTABLELEN =>
                /\ makerandomudstr(gen.mr0).udstring = gen.udstring
                /\ makerandomudstr(gen.mr0).mr = gen.mr
                /\ \A t \in Trials : tpc[t] # "avg" => tloc[t].udstr1 = gen.udstring)
    /\ [][gen' # gen =>
             /\ Len(gen'.draws) = Len(gen.draws) + 1
             /\ gen'.mr = MyRandStep(gen.mr)
             /\ UNCHANGED <<pc, runvars, aggvars, evalvars, mainvars, config, serial>>]_vars

\* C18 witness: the generator has returned a string with both symbols, from
\* draws on both sides of the threshold.
C18_Witness ==
    /\ Len(gen.udstring) = RANDNUMTABLELEN
    /\ \E n \in 1..RANDNUMTABLELEN : gen.draws[n] = 3 /\ gen.udstring[n] = "D"
    /\ \E n \in 1..RANDNUMTABLELEN : gen.draws[n] = 4 /\ gen.udstring[n] = "U"

\* C19: under fair scheduling every trial runs to completion, the parallel
\* win reduction completes with every task done and every lock released,
\* and main reaches its report and then its end, where it stays.
C19_Terminates ==
    <>[](/\ pc = "returned"
         /\ AllTrialsDone
         /\ \A lo \in DOMAIN atask : atask[lo].st = "done"
         /\ \A sp \in PairSet : holders[sp] = {}
         /\ Len(trialwinningavg) = Len(cbarray)
         /\ Len(rep.rows) = Len(udarray))

\* C19 witness: main has returned after a reduction that was split into one
\* task per trial whose tasks met on a key.
C19_Witness ==
    /\ pc = "returned"
    /\ Cardinality(DOMAIN atask) = MCMAX
    /\ \E sp \in PairSet : FlatAt(trialwinningavg, sp) = MCMAX
    /\ Len(rep.rows) = 8

\* A step from vector v to vector w that at most appends one slot and, of
\* the slots v has, changes none but slot own, which it may construct.
OnlyAppends(v, w, own) ==
    /\ Len(w) \in {Len(v), Len(v) + 1}
    /\ \A k \in 1..Len(v) :
           \/ w[k] = v[k]
           \/ (k = own /\ ~v[k].constructed /\ w[k].constructed)

\* C20: a step of the body of trial t leaves the hash map of win counts, its
\* locks and tasks, the returned counts, the expectation sums, the report,
\* the checkpoints and the locals of every other trial unchanged; in the two
\* vectors it removes nothing and changes no slot but its own, and that only
\* by constructing it; and each vector holds exactly one slot for every trial
\* that has reached its append.
C20_TrialFrame ==
    /\ [][\A t \in Trials :
             tpc'[t] # tpc[t] =>
                 /\ UNCHANGED <<pc, aggvars, mainvars>>
                 /\ OnlyAppends(mcresultavg, mcresultavg', tloc'[t].avgidx)
                 /\ OnlyAppends(mcresultwinningavg, mcresultwinningavg', tloc'[t].winidx)
                 /\ \A u \in Trials \ {t} : tloc'[u] = tloc[u] /\ tpc'[u] = tpc[u]]_vars
    /\ [](/\ Len(mcresultavg) =
                 Cardinality({t \in Trials : tpc[t] \notin {"ready", "avg"}})
          /\ Len(mcresultwinningavg) =
                 Cardinality({t \in Trials : tpc[t] \in {"win_emplace", "done"}})
          /\ \A t \in Trials :
                 tpc[t] = "done" =>
                     /\ mcresultavg[tloc[t].avgidx].value = tloc[t].avg
                     /\ mcresultwinningavg[tloc[t].winidx].value = tloc[t].win)

\* C20 witness: a trial constructs its win element in the second slot while
\* the first holds the finished element of another trial.
C20_Witness ==
    \E t1, t2 \in Trials :
        /\ tpc[t1] = "done"
        /\ tloc[t1].winidx = 1
        /\ tpc[t2] = "win_emplace"
        /\ tloc[t2].winidx = 2
        /\ tloc[t1].win # tloc[t2].win


\* The calls main makes on its two collaborators, in program order.
InstrumentationCalls ==
    << [call |-> "checkpoint", name |-> "start", line |-> 199],
       [call |-> "checkpoint", name |-> "parallel", line |-> 219],
       [call |-> "checkpoint", name |-> "rest", line |-> 257],
       [call |-> "checkpoint_print", name |-> "", line |-> 259],
       [call |-> "goexit", name |-> "", line |-> 261] >>

\* The calls received so far are the first calls of the program order.
CallsInOrder ==
    /\ Len(cp) <= Len(InstrumentationCalls)
    /\ \A k \in 1..Len(cp) : cp[k] = InstrumentationCalls[k]

\* How often the process-exit collaborator has been invoked.
GoexitCalls == Cardinality({k \in 1..Len(cp) : cp[k].call = "goexit"})

\* aggregateWinningAvg has been entered and has not returned to main yet.
Aggregating == pc \in {"aggregate_init", "aggregate_parallel", "aggregate_copy"}

\* The report is written: 8 expectations, the header and 8 rows of 8 cells.
ReportComplete ==
    /\ Len(rep.avg) = Len(udarray)
    /\ Len(rep.rows) = Len(udarray)
    /\ \A k \in 1..Len(rep.rows) : Len(rep.rows[k].cells) = Len(udarray)

\* C21 as stated: the collaborators are called in the order start marker,
\* parallel-run marker, third marker, print summary, goexit, with goexit
\* called once and last, and the parallel-run marker is emitted after the
\* trial run and before aggregateWinningAvg starts, so it has been received
\* whenever the aggregation is under way.
C21_MarkerBeforeAggregation ==
    /\ CallsInOrder
    /\ GoexitCalls <= 1
    /\ (GoexitCalls = 1 <=> pc = "returned")
    /\ (Len(cp) >= 2 => TrialsComplete)
    /\ (Aggregating => Len(cp) >= 2)

\* C21 as the code has it: the collaborators are called in the order start
\* marker, second marker, third marker, print summary, goexit; the start
\* marker comes before the trial run; the second marker comes after both
\* the trial run and aggregateWinningAvg have returned and before
\* sumMontecarloAvg starts; the third comes after the expectation sums and
\* the whole report; goexit is called exactly once, after everything else.
C21_InstrumentationOrder ==
    /\ CallsInOrder
    /\ GoexitCalls <= 1
    /\ (GoexitCalls = 1 <=> pc = "returned")
    /\ (pc \in {"makecombination", "main"} <=> Len(cp) = 0)
    /\ (pc = "montecarloTBB" \/ Aggregating \/ pc = "aggregated" <=> Len(cp) = 1)
    /\ (pc \in {"sum_init", "sum_loop", "report_avg", "report_row", "report_cell"}
           <=> Len(cp) = 2)
    /\ (pc = "checkpoint_print" <=> Len(cp) = 3)
    /\ (pc = "goexit" <=> Len(cp) = 4)
    /\ (pc = "returned" <=> Len(cp) = 5)
    /\ (Len(cp) = 0 => \A t \in Trials : tpc[t] = "ready")
    /\ (Len(cp) >= 2 =>
           /\ TrialsComplete
           /\ \A lo \in DOMAIN atask : atask[lo].st = "done"
           /\ Len(trialwinningavg) = Len(cbarray))
    /\ (Len(cp) = 1 => sum = NewSum /\ rep = NewRep)
    /\ (Len(cp) >= 3 => Len(trialavg) = Len(udarray) /\ ReportComplete)

\* C21 witness: main has returned after all five calls, the second marker
\* having been received with the 56 counts already returned.
C21_Witness ==
    /\ pc = "returned"
    /\ Len(cp) = 5
    /\ cp[2].name = "parallel"
    /\ cp[5].call = "goexit"
    /\ Len(trialwinningavg) = Len(cbarray)


\* C22: from the start of the parallel_for of aggregateWinningAvg on, the
\* keys of the hash map are exactly the 56 pairs of cbarray; every key of
\* every trial's win result is one of them, so the insert of every task
\* finds its key and creates none; and the flat_map that is returned has
\* exactly these 56 keys.
C22_KeySetFixed ==
    /\ \A k \in 1..Len(mcresultwinningavg) :
           mcresultwinningavg[k].constructed =>
               FlatKeys(mcresultwinningavg[k].value) \subseteq PairSet
    /\ pc \in {"aggregate_parallel", "aggregate_copy", "aggregated"} =>
           /\ DOMAIN trial = PairSet
           /\ Cardinality(DOMAIN trial) = 56
    /\ pc = "aggregate_parallel" =>
           \A lo \in DOMAIN atask :
               atask[lo].st \in {"want", "locked", "loaded"} =>
                   /\ TaskKey(lo) \in PairSet
                   /\ TaskKey(lo) \in DOMAIN trial
    /\ pc \notin {"makecombination", "main", "montecarloTBB", "aggregate_init",
                  "aggregate_parallel", "aggregate_copy"} =>
           /\ Len(trialwinningavg) = 56
           /\ FlatKeys(trialwinningavg) = PairSet

\* C22 witness: a task is about to increment a key that has been incremented
\* before, while another task has not finished, and the map holds 56 keys.
C22_Witness ==
    /\ pc = "aggregate_parallel"
    /\ Cardinality(DOMAIN trial) = 56
    /\ \E lo, other \in DOMAIN atask :
           /\ lo # other
           /\ atask[lo].st = "locked"
           /\ trial[TaskKey(lo)] >= 1
           /\ atask[other].st \in {"want", "loaded"}


\* C23: called on the same trial win results, the serial aggregator and the
\* parallel aggregator return the same flat_map, entry for entry, whatever
\* the splitting of the range and the interleaving of the tasks was: 56
\* entries, one for each pair of cbarray; and while the tasks run no counter
\* of the hash map exceeds the count the serial aggregator returned.
C23_SerialEquivalent ==
    /\ pc = "aggregated" =>
           /\ trialwinningavg = serial.trialwinningavg
           /\ Len(trialwinningavg) = Len(cbarray)
           /\ FlatKeys(serial.trialwinningavg) = PairSet
    /\ pc = "aggregate_parallel" =>
           \A sp \in DOMAIN trial : trial[sp] <= FlatAt(serial.trialwinningavg, sp)

\* C23 witness: both aggregators have returned on two trial win results that
\* differ, the range having been split into one task per trial, with a pair
\* counted in both trials and a pair counted in one.
C23_Witness ==
    /\ pc = "aggregated"
    /\ serial.i = MCMAX
    /\ Cardinality(DOMAIN atask) = MCMAX
    /\ mcresultwinningavg[1].value # mcresultwinningavg[2].value
    /\ \E sp \in PairSet : FlatAt(serial.trialwinningavg, sp) = MCMAX
    /\ \E sp \in PairSet : FlatAt(trialwinningavg, sp) = 1


\* The entries of a flat_map of counters are all at most b.
AllAtMost(m, b) == \A n \in 1..Len(m) : m[n].second <= b

\* C24: no std::uint32_t accumulator wraps.  Every position a trial records
\* is at most RANDNUMTABLELEN; at every point of the run every expectation
\* sum is at most RANDNUMTABLELEN times the number of trials read so far,
\* hence at most MCMAX * RANDNUMTABLELEN, and it is the sum of the entries passed;
\* every win counter, and the value every increment writes, is at most
\* MCMAX; and for the values the program is built with, MCMAX *
\* RANDNUMTABLELEN, and MCMAX with it, is a value of std::uint32_t.
C24_NoWrap ==
    /\ \A k \in 1..Len(mcresultavg) :
           mcresultavg[k].constructed => AllAtMost(mcresultavg[k].value, RANDNUMTABLELEN)
    /\ LET read == IF pc = "sum_loop" /\ sum.pos > 1 THEN sum.i + 1 ELSE sum.i
       IN  /\ read <= MCMAX
           /\ AllAtMost(sum.trial, read * RANDNUMTABLELEN)
    /\ pc = "sum_loop" =>
           \A n \in 1..Len(sum.trial) :
               sum.trial[n].second = PositionSumSoFar(sum.trial[n].first)
    /\ AllAtMost(trialavg, MCMAX * RANDNUMTABLELEN)
    /\ \A n \in 1..Len(trialavg) : trialavg[n].second = PositionSum(trialavg[n].first)
    /\ pc \notin {"makecombination", "main", "montecarloTBB"} =>
           \A sp \in DOMAIN trial : trial[sp] <= MCMAX
    /\ \A lo \in DOMAIN atask : atask[lo].st = "loaded" => atask[lo].tmp + 1 <= MCMAX
    /\ AllAtMost(trialwinningavg, MCMAX)
    /\ MCMAX <= UInt32MaxOver(RANDNUMTABLELEN)
    /\ ConfiguredRANDNUMTABLELEN >= 2
    /\ ConfiguredMCMAX <= UInt32MaxOver(ConfiguredRANDNUMTABLELEN)

\* C24 witness: the run is over with an expectation sum that is as large as
\* it can be, MCMAX * RANDNUMTABLELEN, and a win counter that is MCMAX.
C24_Witness ==
    /\ pc = "returned"
    /\ \E n \in 1..Len(trialavg) : trialavg[n].second = MCMAX * RANDNUMTABLELEN
    /\ \E n \in 1..Len(trialwinningavg) : trialwinningavg[n].second = MCMAX


\* How many cells with a number the report holds so far.
NumberCells ==
    SeqSum([k \in 1..Len(rep.rows) |->
              Cardinality({c \in 1..Len(rep.rows[k].cells) : ~rep.rows[k].cells[c].blank})])

\* C25: while main prints the matrix, its iterator has been advanced once
\* for every cell with a number written so far, 7 times per finished row;
\* whenever it is dereferenced, for a row label or for a cell, it is before
\* the end of the map and points at the entry of the pair (udarray[i],
\* udarray[j]) of that cell; every row written has the label udarray[i], a
\* blank cell on the diagonal and, in column j, the percentage of the count of
\* the pair (udarray[i], udarray[j]); and when the matrix is complete the
\* iterator has been advanced 56 times and is at the end of the map.
C25_ReporterAligned ==
    /\ pc # "undefined"
    /\ rep.itr = NumberCells
    /\ pc = "report_row" =>
           /\ Len(rep.rows) = rep.i
           /\ rep.itr = 7 * rep.i
           /\ rep.i < Len(udarray) =>
                  /\ rep.itr < Len(trialwinningavg)
                  /\ trialwinningavg[rep.itr + 1].first[1] = udarray[rep.i + 1]
    /\ pc = "report_cell" =>
           /\ Len(rep.rows) = rep.i + 1
           /\ Len(rep.rows[rep.i + 1].cells) = rep.j
           /\ rep.itr = 7 * rep.i + rep.j - (IF rep.j > rep.i THEN 1 ELSE 0)
           /\ (rep.j < Len(udarray) /\ rep.j # rep.i) =>
                  /\ rep.itr < Len(trialwinningavg)
                  /\ trialwinningavg[rep.itr + 1].first =
                         <<udarray[rep.i + 1], udarray[rep.j + 1]>>
    /\ \A k \in 1..Len(rep.rows) :
           /\ rep.rows[k].label = udarray[k]
           /\ \A c \in 1..Len(rep.rows[k].cells) :
                  rep.rows[k].cells[c] =
                      IF c = k THEN BlankCell
                      ELSE NumberCell(Fixed1(100 * FlatAt(trialwinningavg,
                                                          <<udarray[k], udarray[c]>>),
                                             MCMAX))
    /\ pc \in {"checkpoint_print", "goexit", "returned"} =>
           /\ rep.itr = 56
           /\ rep.itr = Len(trialwinningavg)
           /\ ReportComplete

\* C25 witness: the matrix is complete, its last row is labelled UUU, and
\* two neighbouring cells of a row show different percentages, one of them
\* the count of a single trial, so that a cell out of step would show.
C25_Witness ==
    /\ pc = "returned"
    /\ rep.itr = 56
    /\ rep.rows[8].label = <<"U", "U", "U">>
    /\ \E k \in 1..8 : \E c \in 1..7 :
           /\ k \notin {c, c + 1}
           /\ rep.rows[k].cells[c].tenths = 500
           /\ rep.rows[k].cells[c + 1].tenths # 500

====
